---- MODULE Spec2Model ----
(***************************************************************************)
(* The agent runtime of muse: BaseAgent.run, the round-bounded loop that   *)
(* alternates model requests and tool dispatch over one conversation       *)
(* history (src/muse/agents/base.py), with the tool dispatcher of the      *)
(* calendar agent (src/muse/agents/calendar_agent.py) bound to it.         *)
(***************************************************************************)
EXTENDS Naturals, Sequences, FiniteSets, TLC

\* ------------------------------------------------------------------ bounds

\* Largest value of the agent's max_tool_rounds attribute that is explored.
MaxRounds == 3

\* Cap on the model requests one agent issues over all of its runs; a run is
\* only started while a full budget of max_tool_rounds requests is left.
MaxRequests == 4

\* ------------------------------------------------- strings and serialising

RECURSIVE Join(_, _)
\* sep.join(parts): the parts in order with sep between consecutive parts.
Join(parts, sep) ==
    IF Len(parts) = 0 THEN ""
    ELSE IF Len(parts) = 1 THEN parts[1]
    ELSE parts[1] \o sep \o Join(Tail(parts), sep)

\* Faulty variant: the text parts run together with nothing between them.
JoinTextParts_NoSeparator(text_parts) == Join(text_parts, "")

\* "\n".join(text_parts) of the final turn.
JoinTextParts(text_parts) == Join(text_parts, "\n")

RECURSIVE DumpItems(_)
\* The "key": "value" items of a dict of strings, as json.dumps writes them.
DumpItems(items) ==
    IF Len(items) = 0 THEN <<>>
    ELSE <<"\"" \o items[1][1] \o "\": \"" \o items[1][2] \o "\"">>
         \o DumpItems(Tail(items))

\* json.dumps(result, default=str) of a dict, held as its <<key, value>> items.
JsonDumps(d) == "{" \o Join(DumpItems(d.items), ", ") \o "}"

\* The content of a tool result: a str as it is, anything else json-dumped.
ResultContent(result) ==
    IF result.kind = "str" THEN result.text ELSE JsonDumps(result)

\* ------------------------------------------------------ the model's turns

TextBlock(t) == [type |-> "text", text |-> t]

ToolUseBlock(i, n, inp) == [type |-> "tool_use", id |-> i, name |-> n, input |-> inp]

\* isinstance(block, ToolUseBlock) / isinstance(block, TextBlock)
IsToolUseBlock(block) == block.type = "tool_use"

IsTextBlock(block) == block.type = "text"

\* Tool inputs the model sends: with and without the required key.
WithEventId == <<<<"event_id", "e1">>>>

NoEventId == <<>>

\* Contents of the turns the model service answers with.
ContentTextAndCall ==
    <<TextBlock("Let me check."), ToolUseBlock("a", "delete_event", WithEventId)>>

ContentKnownAndUnknown ==
    <<ToolUseBlock("a", "delete_event", WithEventId),
      ToolUseBlock("b", "unknown_tool", NoEventId)>>

ContentThreeCalls ==
    <<ToolUseBlock("a", "delete_event", NoEventId),
      ToolUseBlock("b", "delete_event", WithEventId),
      ToolUseBlock("c", "delete_event", NoEventId)>>

ContentEmpty == <<>>

ContentTwoTexts == <<TextBlock("Done."), TextBlock("Anything else?")>>

\* The responses messages.create can return: a content and a stop reason.
Responses ==
    {[stop_reason |-> "tool_use", content |-> c] :
        c \in {ContentTextAndCall, ContentKnownAndUnknown, ContentThreeCalls,
               ContentEmpty}}
    \cup {[stop_reason |-> "end_turn", content |-> ContentTwoTexts],
          [stop_reason |-> "max_tokens", content |-> ContentTextAndCall]}

NoResponse == [stop_reason |-> "none", content |-> <<>>]

UserMessages == {"What's on my schedule this week?"}

\* ---------------------------------------------------------- tool dispatch

\* The tool names of execute_tool's if/elif chain.
ToolNames ==
    {"create_event", "list_events", "update_event", "delete_event", "check_conflicts",
     "find_availability"}

HasKey(inp, k) == \E j \in 1..Len(inp) : inp[j][1] = k

GetKey(inp, k) == inp[CHOOSE j \in 1..Len(inp) : inp[j][1] = k][2]

Returned(v) == [raised |-> FALSE, value |-> v]

\* An exception of class cls whose str() is m.
Raised(cls, m) == [raised |-> TRUE, cls |-> cls, message |-> m]

\* The classes of the exceptions seen that derive from Exception.
ExceptionClasses == {"KeyError", "OperationalError"}

\* Faulty variant: the handler names KeyError alone.
ExceptCatches_OnlyKeyError(exc) == exc.cls = "KeyError"

\* except Exception as e: does the handler of run catch exc?
ExceptCatches(exc) == exc.cls \in ExceptionClasses

\* CalendarTools.delete_event: the backend cancels the event, or fails.
DeleteEventOutcomes(event_id) ==
    {Returned([kind |-> "dict",
               items |-> <<<<"status", "cancelled">>, <<"event_id", event_id>>>>]),
     Raised("OperationalError", "database is locked")}

\* execute_tool(tool_name, tool_input): the outcomes of one dispatch.
ExecuteToolOutcomes(tool_name, tool_input) ==
    IF tool_name = "delete_event"
    THEN IF HasKey(tool_input, "event_id")
         THEN DeleteEventOutcomes(GetKey(tool_input, "event_id"))
         ELSE {Raised("KeyError", "'event_id'")}   \* tool_input["event_id"]
    ELSE IF tool_name \in ToolNames
    THEN {Returned([kind |-> "dict", items |-> <<<<"status", "ok">>>>]),
          Raised("OperationalError", "database is locked")}
    ELSE {Returned([kind |-> "dict",
                    items |-> <<<<"error", "Unknown tool: " \o tool_name>>>>])}

\* Faulty variant: the result is keyed by the tool's name, not by the request's id.
ToolResultOk_NameAsId(block, result) ==
    [type |-> "tool_result", tool_use_id |-> block.name,
     content |-> ResultContent(result), is_error |-> FALSE]

\* The tool_result dict of a dispatch that returned (no is_error key: FALSE).
ToolResultOk(block, result) ==
    [type |-> "tool_result", tool_use_id |-> block.id,
     content |-> ResultContent(result), is_error |-> FALSE]

\* The tool_result dict of a dispatch that raised e.
ToolResultError(block, e) ==
    [type |-> "tool_result", tool_use_id |-> block.id,
     content |-> "Error executing tool: " \o e, is_error |-> TRUE]

ToolResultOf(block, outcome) ==
    IF outcome.raised THEN ToolResultError(block, outcome.message)
    ELSE ToolResultOk(block, outcome.value)

\* ------------------------------------------------------------------ turns

UserTurn(user_message) == [role |-> "user", content |-> user_message]

\* [block.model_dump() for block in response.content]: every block, in order.
AssistantToolUseTurn(resp) == [role |-> "assistant", blocks |-> resp.content]

ToolResultTurn(results) == [role |-> "user", results |-> results]

AssistantTextTurn(assistant_text) == [role |-> "assistant", content |-> assistant_text]

RECURSIVE TextParts(_)
\* text_parts: the text of every TextBlock of the content, in order.
TextParts(content) ==
    IF Len(content) = 0 THEN <<>>
    ELSE (IF IsTextBlock(content[1]) THEN <<content[1].text>> ELSE <<>>)
         \o TextParts(Tail(content))

FallbackText == "I'm having trouble completing this request. Could you try rephrasing?"

\* ------------------------------------------------------------------ state

VARIABLES
    conversation_history,  \* self.conversation_history
    max_tool_rounds,       \* self.max_tool_rounds
    pc,                    \* where run stands
    round_num,             \* the loop variable of run
    response,              \* the model's turn of the current round
    block_idx,             \* position of the loop over response.content
    tool_results,          \* the results collected in the current round
    outcome,               \* how the last run ended: its value, or that it raised
    log,                   \* the events the current run has logged
    requests,              \* model requests issued by the current run
    total_requests,        \* model requests issued by the agent so far
    len0,                  \* length of the history when the current run was called
    sent,                  \* the messages argument of the latest model request
    answers,               \* how each model request of the current run was answered
    dispatched             \* the execute_tool calls of the current round and how each ended

vars == <<conversation_history, max_tool_rounds, pc, round_num, response, block_idx,
          tool_results, outcome, log, requests, total_requests, len0, sent, answers,
          dispatched>>

Running == pc \in {"AWAITING_MODEL", "EXECUTING_TOOLS"}

NoOutcome == [kind |-> "none"]

\* The orchestrators: one per session of the application, each with the five
\* attributes that cache its agents. MaxOps bounds the route and reset calls
\* of all sessions together.
MaxOps == 2

Sessions == {"A", "B"}

AgentLabels == {"CALENDAR", "EMAIL", "INVOICE", "SOCIAL", "CRM"}

\* self.max_tool_rounds = 10 of BaseAgent.__init__.
DefaultMaxToolRounds == 10

\* An attribute that holds no agent.
None == [serial |-> 0, conversation_history |-> <<>>, max_tool_rounds |-> 0]

\* The operation an orchestrator performed last, and what it did.
NoOp == [session |-> "none", op |-> "none", user_message |-> "",
         answer |-> "none", classify |-> "none", outcome |-> NoOutcome, events |-> <<>>]

VARIABLES
    agent_attr,     \* session -> label -> the cached agent, or None
    constructed,    \* ghost: session -> label -> constructor calls that completed
    last,           \* ghost: the last route or reset: its outcome and its events
    ops             \* ghost: the number of route and reset calls so far

orchVars == <<agent_attr, constructed, last, ops>>

\* A call of execute_tool on its own: the agent, the name and the input, and
\* how the call ended.
NoCall == [category |-> "none", tool_name |-> "", tool_input |-> <<>>]

NoResult == [done |-> FALSE]

VARIABLES
    call,           \* the call of execute_tool under way or done last
    result          \* its end and the backend operations it invoked, or NoResult

toolVars == <<call, result>>

ToolInit ==
    /\ call = NoCall
    /\ result = NoResult

\* Orchestrator.__init__ of every session: no agent is constructed.
OrchInit ==
    /\ agent_attr = [s \in Sessions |-> [c \in AgentLabels |-> None]]
    /\ constructed = [s \in Sessions |-> [c \in AgentLabels |-> 0]]
    /\ last = NoOp
    /\ ops = 0

\* BaseAgent.__init__: an empty history. max_tool_rounds is an attribute of the
\* agent, 10 as __init__ sets it; every value from 1 to MaxRounds is explored,
\* and the claims are stated in terms of the attribute.
Init ==
    /\ conversation_history = <<>>
    /\ max_tool_rounds \in 1..MaxRounds
    /\ pc = "IDLE"
    /\ round_num = 0
    /\ response = NoResponse
    /\ block_idx = 0
    /\ tool_results = <<>>
    /\ outcome = NoOutcome
    /\ log = <<>>
    /\ requests = 0
    /\ total_requests = 0
    /\ len0 = 0
    /\ sent = <<>>
    /\ answers = <<>>
    /\ dispatched = <<>>
    /\ OrchInit
    /\ ToolInit

\* Faulty variant: the loop bound taken inclusively, one round too many.
RangeHasNext_Inclusive(i, n) == i <= n

\* Faulty variant: the loop bound taken one short, one round too few.
RangeHasNext_OneShort(i, n) == i + 1 < n

\* for round_num in range(self.max_tool_rounds): is there a round i?
RangeHasNext(i, n) == i < n

\* Faulty variant: the history is cut to its last four turns before each round.
LoopHead_Window(i, h, lg) ==
    /\ conversation_history' = IF Len(h) > 4 THEN SubSeq(h, Len(h) - 3, Len(h)) ELSE h
    /\ round_num' = i
    /\ IF RangeHasNext(i, max_tool_rounds)
       THEN /\ pc' = "AWAITING_MODEL"
            /\ log' = lg
            /\ outcome' = NoOutcome
       ELSE /\ pc' = "TERMINAL_BOUND"
            /\ log' = Append(lg, "hit_max_tool_rounds")
            /\ outcome' = [kind |-> "returned", value |-> FallbackText]

\* Faulty variant: the fallback string is appended to the history as an assistant turn.
LoopHead_PersistsFallback(i, h, lg) ==
    /\ round_num' = i
    /\ IF RangeHasNext(i, max_tool_rounds)
       THEN /\ conversation_history' = h
            /\ pc' = "AWAITING_MODEL"
            /\ log' = lg
            /\ outcome' = NoOutcome
       ELSE /\ conversation_history' = Append(h, AssistantTextTurn(FallbackText))
            /\ pc' = "TERMINAL_BOUND"
            /\ log' = Append(lg, "hit_max_tool_rounds")
            /\ outcome' = [kind |-> "returned", value |-> FallbackText]

\* The head of the for loop with the history h: the next round, or, the range
\* exhausted, the warning and the fallback string.
LoopHead(i, h, lg) ==
    /\ conversation_history' = h
    /\ round_num' = i
    /\ IF RangeHasNext(i, max_tool_rounds)
       THEN /\ pc' = "AWAITING_MODEL"
            /\ log' = lg
            /\ outcome' = NoOutcome
       ELSE /\ pc' = "TERMINAL_BOUND"
            /\ log' = Append(lg, "hit_max_tool_rounds")
            /\ outcome' = [kind |-> "returned", value |-> FallbackText]

\* Faulty variant: the round count of the run before is carried into the new run.
Run_CarriesRoundCount(user_message) ==
    /\ ~Running
    /\ total_requests + max_tool_rounds <= MaxRequests
    /\ LoopHead(round_num, Append(conversation_history, UserTurn(user_message)), <<>>)
    /\ len0' = Len(conversation_history)
    /\ requests' = 0
    /\ response' = NoResponse
    /\ block_idx' = 0
    /\ tool_results' = <<>>
    /\ sent' = <<>>
    /\ answers' = <<>>
    /\ dispatched' = <<>>
    /\ UNCHANGED <<max_tool_rounds, total_requests>>

\* run(user_message), up to its first model request. It is called when no run
\* is in progress: at first, after a run that returned, and after one that raised.
Run(user_message) ==
    /\ ~Running
    /\ total_requests + max_tool_rounds <= MaxRequests
    /\ LoopHead(0, Append(conversation_history, UserTurn(user_message)), <<>>)
    /\ len0' = Len(conversation_history)
    /\ requests' = 0
    /\ response' = NoResponse
    /\ block_idx' = 0
    /\ tool_results' = <<>>
    /\ sent' = <<>>
    /\ answers' = <<>>
    /\ dispatched' = <<>>
    /\ UNCHANGED <<max_tool_rounds, total_requests>>

\* The final branch of a round: the text parts joined, appended and returned.
FinalAnswer(resp) ==
    LET assistant_text == JoinTextParts(TextParts(resp.content)) IN
    /\ conversation_history' =
           Append(conversation_history, AssistantTextTurn(assistant_text))
    /\ outcome' = [kind |-> "returned", value |-> assistant_text]
    /\ log' = Append(Append(log, "round"), "completed")
    /\ pc' = "TERMINAL_TEXT"
    /\ UNCHANGED <<block_idx, tool_results, dispatched>>

\* The tool-use branch of a round, up to the loop over the blocks.
ToolUse(resp) ==
    /\ conversation_history' =
           Append(conversation_history, AssistantToolUseTurn(resp))
    /\ tool_results' = <<>>
    /\ dispatched' = <<>>
    /\ block_idx' = 1
    /\ log' = Append(log, "round")
    /\ pc' = "EXECUTING_TOOLS"
    /\ UNCHANGED outcome

\* Faulty variant: a turn asks for tools when it carries a tool-use block.
IsToolUseTurn_ByBlocks(resp) ==
    \E j \in 1..Len(resp.content) : IsToolUseBlock(resp.content[j])

\* Whether the model's turn asks for tools.
IsToolUseTurn(resp) == resp.stop_reason = "tool_use"

\* client.messages.create returns a turn: one round's model request.
CreateMessage ==
    /\ pc = "AWAITING_MODEL"
    /\ \E resp \in Responses :
        /\ response' = resp
        /\ answers' = Append(answers, resp.stop_reason)
        /\ IF IsToolUseTurn(resp) THEN ToolUse(resp) ELSE FinalAnswer(resp)
    /\ sent' = conversation_history
    /\ requests' = requests + 1
    /\ total_requests' = total_requests + 1
    /\ UNCHANGED <<max_tool_rounds, round_num, len0>>

\* Faulty variant: a request that raises takes the turns of its run off the history.
CreateMessageRaises_RollsBack ==
    /\ pc = "AWAITING_MODEL"
    /\ conversation_history' = SubSeq(conversation_history, 1, len0)
    /\ sent' = conversation_history
    /\ requests' = requests + 1
    /\ total_requests' = total_requests + 1
    /\ answers' = Append(answers, "raised")
    /\ log' = Append(log, "round")
    /\ outcome' = [kind |-> "raised", value |-> "APIConnectionError"]
    /\ pc' = "RAISED"
    /\ UNCHANGED <<max_tool_rounds, round_num, response, block_idx, tool_results, len0,
                   dispatched>>

\* client.messages.create raises: the exception leaves run.
CreateMessageRaises ==
    /\ pc = "AWAITING_MODEL"
    /\ sent' = conversation_history
    /\ requests' = requests + 1
    /\ total_requests' = total_requests + 1
    /\ answers' = Append(answers, "raised")
    /\ log' = Append(log, "round")
    /\ outcome' = [kind |-> "raised", value |-> "APIConnectionError"]
    /\ pc' = "RAISED"
    /\ UNCHANGED <<conversation_history, max_tool_rounds, round_num, response,
                   block_idx, tool_results, len0, dispatched>>

\* Faulty variant: each result is put in front of the results collected so far.
Dispatch_PrependsResult(block, o) ==
    /\ dispatched' = Append(dispatched, [id |-> block.id, name |-> block.name, end |-> o])
    /\ block_idx' = block_idx + 1
    /\ tool_results' = <<ToolResultOf(block, o)>> \o tool_results
    /\ log' = IF o.raised
              THEN Append(Append(log, "calling_tool"), "tool_error")
              ELSE Append(log, "calling_tool")
    /\ UNCHANGED <<pc, outcome>>

\* Faulty variant: the first call that raises ends the loop over the blocks.
Dispatch_BreaksOnError(block, o) ==
    /\ dispatched' = Append(dispatched, [id |-> block.id, name |-> block.name, end |-> o])
    /\ tool_results' = Append(tool_results, ToolResultOf(block, o))
    /\ log' = Append(log, "calling_tool")
    /\ block_idx' = IF o.raised THEN Len(response.content) + 1 ELSE block_idx + 1
    /\ UNCHANGED <<pc, outcome>>

\* One call of execute_tool inside the try statement, ending as o: its result
\* is collected and the loop goes on to the next block, or the exception the
\* handler does not catch leaves run.
Dispatch(block, o) ==
    /\ dispatched' = Append(dispatched, [id |-> block.id, name |-> block.name, end |-> o])
    /\ block_idx' = block_idx + 1
    /\ IF o.raised /\ ~ExceptCatches(o)
       THEN /\ pc' = "RAISED"
            /\ outcome' = [kind |-> "raised", value |-> o.cls]
            /\ log' = Append(log, "calling_tool")
            /\ UNCHANGED tool_results
       ELSE /\ tool_results' = Append(tool_results, ToolResultOf(block, o))
            /\ log' = IF o.raised
                      THEN Append(Append(log, "calling_tool"), "tool_error")
                      ELSE Append(log, "calling_tool")
            /\ UNCHANGED <<pc, outcome>>

\* One iteration of the loop over response.content: a tool-use block is
\* dispatched, any other block is passed over.
ExecuteTool ==
    /\ pc = "EXECUTING_TOOLS"
    /\ block_idx <= Len(response.content)
    /\ LET block == response.content[block_idx] IN
       IF IsToolUseBlock(block)
       THEN \E o \in ExecuteToolOutcomes(block.name, block.input) : Dispatch(block, o)
       ELSE /\ block_idx' = block_idx + 1
            /\ UNCHANGED <<tool_results, dispatched, log, pc, outcome>>
    /\ UNCHANGED <<conversation_history, max_tool_rounds, round_num, response,
                   requests, total_requests, len0, sent, answers>>

\* Faulty variant: the results are fed back while calls of the round are still to be made.
FeedResults_BeforeAllCallsEnd ==
    /\ pc = "EXECUTING_TOOLS"
    /\ LoopHead(round_num + 1,
                Append(conversation_history, ToolResultTurn(tool_results)), log)
    /\ UNCHANGED <<max_tool_rounds, response, block_idx, tool_results, requests,
                   total_requests, len0, sent, answers, dispatched>>

\* Faulty variant: a round without results appends no tool-result turn.
FeedResults_SkipsEmpty ==
    /\ pc = "EXECUTING_TOOLS"
    /\ block_idx > Len(response.content)
    /\ LoopHead(round_num + 1,
                IF tool_results = <<>> THEN conversation_history
                ELSE Append(conversation_history, ToolResultTurn(tool_results)), log)
    /\ UNCHANGED <<max_tool_rounds, response, block_idx, tool_results, requests,
                   total_requests, len0, sent, answers, dispatched>>

\* The loop over the blocks is done: the results are fed back as one user
\* turn, and the for loop goes to its next round.
FeedResults ==
    /\ pc = "EXECUTING_TOOLS"
    /\ block_idx > Len(response.content)
    /\ LoopHead(round_num + 1,
                Append(conversation_history, ToolResultTurn(tool_results)), log)
    /\ UNCHANGED <<max_tool_rounds, response, block_idx, tool_results, requests,
                   total_requests, len0, sent, answers, dispatched>>

\* Faulty variant: reset keeps the first turn of the history.
Reset_KeepsFirstTurn ==
    /\ ~Running
    /\ conversation_history' =
           IF conversation_history = <<>> THEN <<>> ELSE <<conversation_history[1]>>
    /\ pc' = "IDLE"
    /\ round_num' = 0
    /\ response' = NoResponse
    /\ block_idx' = 0
    /\ tool_results' = <<>>
    /\ outcome' = NoOutcome
    /\ log' = <<>>
    /\ requests' = 0
    /\ len0' = 0
    /\ sent' = <<>>
    /\ answers' = <<>>
    /\ dispatched' = <<>>
    /\ UNCHANGED <<max_tool_rounds, total_requests>>

\* reset(): the history is replaced by an empty one. It is called between
\* runs; the frame of the run that ended is gone.
Reset ==
    /\ ~Running
    /\ conversation_history' = <<>>
    /\ pc' = "IDLE"
    /\ round_num' = 0
    /\ response' = NoResponse
    /\ block_idx' = 0
    /\ tool_results' = <<>>
    /\ outcome' = NoOutcome
    /\ log' = <<>>
    /\ requests' = 0
    /\ len0' = 0
    /\ sent' = <<>>
    /\ answers' = <<>>
    /\ dispatched' = <<>>
    /\ UNCHANGED <<max_tool_rounds, total_requests>>

\* One agent on its own: the orchestrators stand by.
Next ==
    \/ \E user_message \in UserMessages : Run(user_message) /\ UNCHANGED <<orchVars, toolVars>>
    \/ CreateMessage /\ UNCHANGED <<orchVars, toolVars>>
    \/ CreateMessageRaises /\ UNCHANGED <<orchVars, toolVars>>
    \/ ExecuteTool /\ UNCHANGED <<orchVars, toolVars>>
    \/ FeedResults /\ UNCHANGED <<orchVars, toolVars>>
    \/ Reset /\ UNCHANGED <<orchVars, toolVars>>

Spec == Init /\ [][Next]_vars

\* ------------------------------------------------------------ the classifier

\* A text the classifier answers with is a sequence of characters.
Whitespace == {" ", "\t", "\n", "\r"}

LowerCase == <<"a", "b", "c", "d", "e", "f", "g", "h", "i", "j", "k", "l", "m",
               "n", "o", "p", "q", "r", "s", "t", "u", "v", "w", "x", "y", "z">>

UpperCase == <<"A", "B", "C", "D", "E", "F", "G", "H", "I", "J", "K", "L", "M",
               "N", "O", "P", "Q", "R", "S", "T", "U", "V", "W", "X", "Y", "Z">>

UpperChar(c) ==
    IF \E j \in 1..Len(LowerCase) : LowerCase[j] = c
    THEN UpperCase[CHOOSE j \in 1..Len(LowerCase) : LowerCase[j] = c]
    ELSE c

\* str.upper()
RECURSIVE Upper(_)
Upper(chars) ==
    IF chars = <<>> THEN <<>> ELSE <<UpperChar(Head(chars))>> \o Upper(Tail(chars))

RECURSIVE LStrip(_)
LStrip(chars) ==
    IF chars # <<>> /\ Head(chars) \in Whitespace THEN LStrip(Tail(chars)) ELSE chars

RECURSIVE RStrip(_)
RStrip(chars) ==
    IF chars # <<>> /\ chars[Len(chars)] \in Whitespace
    THEN RStrip(SubSeq(chars, 1, Len(chars) - 1))
    ELSE chars

\* str.strip()
Strip(chars) == RStrip(LStrip(chars))

\* The string of a sequence of characters.
Str(chars) == Join(chars, "")

\* The texts of the first block of the classifier's answer.
TextCalendar == <<"C", "A", "L", "E", "N", "D", "A", "R">>

TextCalendarPadded == <<" ", "c", "a", "l", "e", "n", "d", "a", "r", "\n">>

TextEmail == <<"E", "M", "A", "I", "L">>

TextInvoice == <<"I", "n", "v", "o", "i", "c", "e">>

TextSocial == <<"S", "O", "C", "I", "A", "L">>

TextCrm == <<"c", "r", "m">>

TextGeneral == <<"G", "E", "N", "E", "R", "A", "L">>

TextUnsure == <<"U", "N", "S", "U", "R", "E">>

TextEmptyString == <<>>

TextWhitespace == <<" ", "\n">>

TextMultiWord == <<"C", "A", "L", "E", "N", "D", "A", "R", " ", "o", "r", " ",
                   "E", "M", "A", "I", "L">>

ClassifierTexts ==
    {TextCalendar, TextCalendarPadded, TextEmail, TextInvoice, TextSocial, TextCrm,
     TextGeneral, TextUnsure, TextEmptyString, TextWhitespace, TextMultiWord}

\* What the classification request ends with: a response whose first block
\* carries a text, a response without blocks, or the exception of the client.
ApiError == [raises |-> TRUE, content |-> <<>>]

\* An answer of two blocks, of which the second is a label.
TwoBlockAnswer ==
    [raises |-> FALSE, content |-> <<TextBlock(TextUnsure), TextBlock(TextCalendar)>>]

ClassifierAnswers ==
    {[raises |-> FALSE, content |-> <<TextBlock(t)>>] : t \in ClassifierTexts}
    \cup {TwoBlockAnswer, [raises |-> FALSE, content |-> <<>>], ApiError}

RouterPrompt == "You are a router for Muse, an AI manager for independent musicians."

\* Faulty variant: the message classified before is sent along as an earlier turn.
ClassifyRequest_WithEarlierMessage(message, answer) ==
    [ev |-> "request", by |-> "ROUTER", system |-> RouterPrompt, tools |-> "none",
     max_tokens |-> 20,
     messages |-> (IF last.op = "route" THEN <<UserTurn(last.user_message)>> ELSE <<>>)
                  \o <<UserTurn(message)>>,
     answer |-> IF answer.raises THEN "raised" ELSE "returned"]

\* The request _classify sends: the router prompt, the message as the one
\* turn, no tools.
ClassifyRequest(message, answer) ==
    [ev |-> "request", by |-> "ROUTER", system |-> RouterPrompt, tools |-> "none",
     max_tokens |-> 20, messages |-> <<UserTurn(message)>>,
     answer |-> IF answer.raises THEN "raised" ELSE "returned"]

\* valid of _classify.
ValidCategories == {"CALENDAR", "SOCIAL", "INVOICE", "EMAIL", "CRM", "GENERAL"}

\* Faulty variant: the text is compared as the model wrote it.
Normalise_AsIs(chars) == Str(chars)

\* response.content[0].text.strip().upper() on the text of the first block.
Normalise(chars) == Str(Upper(Strip(chars)))

\* Faulty variant: a failure of the classification request yields GENERAL.
Classify_AbsorbsApiError(answer) ==
    IF answer.raises
    THEN Returned("GENERAL")
    ELSE IF Len(answer.content) = 0
    THEN Raised("IndexError", "list index out of range")
    ELSE LET category == Normalise(answer.content[1].text) IN
         IF category \notin ValidCategories THEN Returned("GENERAL")
         ELSE Returned(category)

\* _classify(message) once messages.create has ended as answer: the label it
\* returns, or the exception that leaves it.
Classify(answer) ==
    IF answer.raises
    THEN Raised("APIConnectionError", "Connection error.")
    ELSE IF Len(answer.content) = 0
    THEN Raised("IndexError", "list index out of range")      \* content[0]
    ELSE LET category == Normalise(answer.content[1].text) IN
         IF category \notin ValidCategories THEN Returned("GENERAL")
         ELSE Returned(category)

\* ------------------------------------------------------- the agent catalogue

\* The tools each agent declares, which are the names of its execute_tool.
AgentToolNames(category) ==
    CASE category = "CALENDAR" -> ToolNames
      [] category = "EMAIL" ->
            {"list_emails", "read_email", "search_emails", "draft_reply",
             "create_draft", "send_draft", "modify_labels", "extract_gig_details"}
      [] category = "INVOICE" ->
            {"create_invoice", "list_invoices", "get_invoice", "update_invoice",
             "mark_paid", "generate_pdf", "get_income_summary"}
      [] category = "SOCIAL" ->
            {"get_voice_context", "create_post_draft", "list_posts", "get_post",
             "update_post", "delete_post", "add_voice_sample", "list_voice_samples",
             "generate_hashtags"}
      [] category = "CRM" ->
            {"add_contact", "search_contacts", "get_contact", "update_contact",
             "add_interaction", "list_interactions", "get_contact_summary"}

UnknownToolResult(tool_name) ==
    [kind |-> "dict", items |-> <<<<"error", "Unknown tool: " \o tool_name>>>>]

\* An input of get_invoice.
WithInvoiceId == <<<<"invoice_id", "INV-404">>>>

\* InvoiceTools.get_invoice: the invoice, an error value when there is no
\* invoice of the id, or the failure of the store.
GetInvoiceOutcomes(invoice_id) ==
    {Returned([kind |-> "dict",
               items |-> <<<<"id", invoice_id>>, <<"status", "draft">>>>]),
     Returned([kind |-> "dict",
               items |-> <<<<"error", "Invoice not found: " \o invoice_id>>>>]),
     Raised("OperationalError", "database is locked")}

\* A branch of an agent's chain: the key it needs is missing, or its backend
\* operation returns or fails.
KnownToolOutcomes(category, tool_name, tool_input) ==
    IF category = "CALENDAR"
    THEN ExecuteToolOutcomes(tool_name, tool_input)
    ELSE IF category = "INVOICE" /\ tool_name = "get_invoice"
    THEN IF HasKey(tool_input, "invoice_id")
         THEN GetInvoiceOutcomes(GetKey(tool_input, "invoice_id"))
         ELSE {Raised("KeyError", "'invoice_id'")}   \* tool_input["invoice_id"]
    ELSE {Returned([kind |-> "dict", items |-> <<<<"status", "ok">>>>]),
          Raised("OperationalError", "database is locked")}

\* Faulty variant: a name outside the chain raises.
ExecuteToolCalls_UnknownRaises(category, tool_name, tool_input) ==
    IF tool_name \in AgentToolNames(category)
    THEN {[end |-> o,
           backend |-> IF o.raised /\ o.cls = "KeyError" THEN <<>> ELSE <<tool_name>>] :
             o \in KnownToolOutcomes(category, tool_name, tool_input)}
    ELSE {[end |-> Raised("ValueError", "Unknown tool: " \o tool_name), backend |-> <<>>]}

\* execute_tool(tool_name, tool_input) of the agent of a category: how one
\* call can end, and the backend operations it invoked on the way.
ExecuteToolCalls(category, tool_name, tool_input) ==
    IF tool_name \in AgentToolNames(category)
    THEN {[end |-> o,
           backend |-> IF o.raised /\ o.cls = "KeyError" THEN <<>> ELSE <<tool_name>>] :
             o \in KnownToolOutcomes(category, tool_name, tool_input)}
    ELSE {[end |-> Returned(UnknownToolResult(tool_name)), backend |-> <<>>]}

\* ------------------------------------------------- run, as route calls it

\* What the model service does in the rounds of one run: per round a response
\* or a failure of the request, and whether the backend operations of the
\* round fail. The last entry stands for every later round.
Answer(stop_reason, content, fail) ==
    [raises |-> FALSE, response |-> [stop_reason |-> stop_reason, content |-> content],
     fail |-> fail]

RequestFails == [raises |-> TRUE, response |-> NoResponse, fail |-> FALSE]

ScriptFinal == <<Answer("end_turn", ContentTwoTexts, FALSE)>>

ScriptToolThenFinal ==
    <<Answer("tool_use", ContentKnownAndUnknown, FALSE),
      Answer("end_turn", ContentTwoTexts, FALSE)>>

ScriptToolsForever == <<Answer("tool_use", ContentTextAndCall, FALSE)>>

ScriptToolThenRequestFails ==
    <<Answer("tool_use", ContentTextAndCall, TRUE), RequestFails>>

ScriptRequestFails == <<RequestFails>>

Scripts ==
    {ScriptFinal, ScriptToolThenFinal, ScriptToolsForever, ScriptToolThenRequestFails,
     ScriptRequestFails}

ScriptAt(script, k) == script[IF k <= Len(script) THEN k ELSE Len(script)]

\* The end of one dispatch in a round whose backend operations fail or not.
PickOutcome(outs, fail) ==
    IF \E o \in outs : o.raised = fail
    THEN CHOOSE o \in outs : o.raised = fail
    ELSE CHOOSE o \in outs : TRUE

\* The tool_results of a round: one per tool-use block, in order.
RECURSIVE RoundResults(_, _, _)
RoundResults(category, content, fail) ==
    IF content = <<>> THEN <<>>
    ELSE IF IsToolUseBlock(Head(content))
    THEN LET block == Head(content)
             o == PickOutcome({x.end : x \in
                      ExecuteToolCalls(category, block.name, block.input)}, fail)
         IN <<ToolResultOf(block, o)>> \o RoundResults(category, Tail(content), fail)
    ELSE RoundResults(category, Tail(content), fail)

\* Faulty variant: the agent's requests carry no tool specifications.
RunRequest_WithoutTools(category, h, a) ==
    [ev |-> "request", by |-> category, system |-> category, tools |-> "none",
     max_tokens |-> 4096, messages |-> h,
     answer |-> IF a.raises THEN "raised" ELSE a.response.stop_reason]

\* The model request of one round of the agent of a category.
RunRequest(category, h, a) ==
    [ev |-> "request", by |-> category, system |-> category, tools |-> category,
     max_tokens |-> 4096, messages |-> h,
     answer |-> IF a.raises THEN "raised" ELSE a.response.stop_reason]

\* The rounds i, i+1, ... of run on the history h: the history it leaves,
\* how it ends and the requests it issued.
RECURSIVE RunRounds(_, _, _, _, _)
RunRounds(category, h, i, n, script) ==
    IF ~RangeHasNext(i, n)
    THEN [history |-> h, outcome |-> [kind |-> "returned", value |-> FallbackText],
          events |-> <<>>]
    ELSE LET a == ScriptAt(script, i + 1) IN
         IF a.raises
         THEN [history |-> h,
               outcome |-> [kind |-> "raised", value |-> "APIConnectionError"],
               events |-> <<RunRequest(category, h, a)>>]
         ELSE IF IsToolUseTurn(a.response)
         THEN LET h1 == Append(h, AssistantToolUseTurn(a.response))
                  h2 == Append(h1, ToolResultTurn(
                            RoundResults(category, a.response.content, a.fail)))
                  rest == RunRounds(category, h2, i + 1, n, script)
              IN [rest EXCEPT !.events = <<RunRequest(category, h, a)>> \o @]
         ELSE LET assistant_text == JoinTextParts(TextParts(a.response.content)) IN
              [history |-> Append(h, AssistantTextTurn(assistant_text)),
               outcome |-> [kind |-> "returned", value |-> assistant_text],
               events |-> <<RunRequest(category, h, a)>>]

\* agent.run(user_message) on the agent of a category.
RunAgent(category, agent, user_message, script) ==
    RunRounds(category, Append(agent.conversation_history, UserTurn(user_message)),
              0, agent.max_tool_rounds, script)

\* ------------------------------------------------------------ Orchestrator

\* The static text route returns for GENERAL (its first and last lines).
GeneralText ==
    "Hey! I'm Muse, your AI manager. I can help you with:\n\nWhat can I help you with?"

\* XAgent(client=self.client): BaseAgent.__init__ and the agent's tool backend.
NewAgent(serial) ==
    [serial |-> serial, conversation_history |-> <<>>,
     max_tool_rounds |-> DefaultMaxToolRounds]

\* Faulty variant: the property constructs an agent at every access.
LazyAgent_AlwaysConstructs(category, attr, count, ok) ==
    IF ok
    THEN [agent |-> NewAgent(count + 1), count |-> count + 1, raised |-> FALSE,
          events |-> <<[ev |-> "construct", category |-> category, ok |-> TRUE]>>]
    ELSE [agent |-> attr, count |-> count, raised |-> TRUE,
          events |-> <<[ev |-> "construct", category |-> category, ok |-> FALSE]>>]

\* The property of a category, the attribute holding attr: the agent it
\* returns, constructed if the attribute holds none. The constructor raises
\* when the tool backend cannot open its store (ok is FALSE); the attribute is
\* then not assigned.
LazyAgent(category, attr, count, ok) ==
    IF attr = None
    THEN IF ok
         THEN [agent |-> NewAgent(count + 1), count |-> count + 1, raised |-> FALSE,
               events |-> <<[ev |-> "construct", category |-> category, ok |-> TRUE]>>]
         ELSE [agent |-> None, count |-> count, raised |-> TRUE,
               events |-> <<[ev |-> "construct", category |-> category, ok |-> FALSE]>>]
    ELSE [agent |-> attr, count |-> count, raised |-> FALSE, events |-> <<>>]

\* Faulty variant: GENERAL is served by the calendar agent.
AgentMapGet_GeneralToCalendar(category) ==
    IF category = "GENERAL" THEN "CALENDAR" ELSE category

\* agent_map.get(category): the property the category is bound to, if any.
AgentMapGet(category) == category

HasGetter(category) == AgentMapGet(category) \in AgentLabels

\* Faulty variant: the message is prefixed with the label before it is handed to the agent.
RunArgument_Prefixed(category, user_message) == category \o ": " \o user_message

\* The argument route passes to run.
RunArgument(category, user_message) == user_message

\* Faulty variant: the attributes are those of one orchestrator for all sessions.
Owner_Shared(s) == "A"

\* The orchestrator whose attributes self names in a call of session s: the
\* one init_session_state made for that session.
Owner(s) == s

\* What route hands back, and the exception that leaves it.
Returns(value) == [kind |-> "returned", value |-> value]

Raises(cls) == [kind |-> "raised", value |-> cls]

\* The end of a route of session s that left the attributes as they were.
RouteEnds(s, user_message, answer, c, o, events) ==
    /\ last' = [session |-> s, op |-> "route", user_message |-> user_message,
                answer |-> answer, classify |-> c, outcome |-> o, events |-> events]
    /\ UNCHANGED <<agent_attr, constructed>>

\* Faulty variant: the agents of an orchestrator append to one list they share.
RouteRuns_SharedHistory(s, user_message, answer, c, g, asked, script) ==
    LET category == c.value IN
    \E r \in {RunAgent(AgentMapGet(category), g.agent,
                       RunArgument(category, user_message), script)} :
        /\ agent_attr' = [agent_attr EXCEPT ![Owner(s)] =
                 [k \in AgentLabels |->
                     IF k = AgentMapGet(category)
                     THEN [g.agent EXCEPT !.conversation_history = r.history]
                     ELSE IF @[k] # None
                     THEN [@[k] EXCEPT !.conversation_history = r.history]
                     ELSE @[k]]]
        /\ constructed' = [constructed EXCEPT ![Owner(s)][AgentMapGet(category)] = g.count]
        /\ last' = [session |-> s, op |-> "route", user_message |-> user_message,
                    answer |-> answer, classify |-> c,
                    outcome |-> IF r.outcome.kind = "raised" THEN r.outcome
                                ELSE Returns(<<category, r.outcome.value>>),
                    events |-> asked \o g.events
                        \o <<[ev |-> "run", category |-> AgentMapGet(category),
                              serial |-> g.agent.serial,
                              user_message |-> RunArgument(category, user_message)]>>
                        \o r.events
                        \o <<[ev |-> "ran", category |-> AgentMapGet(category),
                              end |-> r.outcome]>>]

\* agent.run(user_message) of route, on the agent the property returned, and
\* the return of the pair.
RouteRuns(s, user_message, answer, c, g, asked, script) ==
    LET category == c.value IN
    \E r \in {RunAgent(AgentMapGet(category), g.agent,
                       RunArgument(category, user_message), script)} :
        /\ agent_attr' = [agent_attr EXCEPT ![Owner(s)][AgentMapGet(category)] =
                              [g.agent EXCEPT !.conversation_history = r.history]]
        /\ constructed' = [constructed EXCEPT ![Owner(s)][AgentMapGet(category)] = g.count]
        /\ last' = [session |-> s, op |-> "route", user_message |-> user_message,
                    answer |-> answer, classify |-> c,
                    outcome |-> IF r.outcome.kind = "raised" THEN r.outcome
                                ELSE Returns(<<category, r.outcome.value>>),
                    events |-> asked \o g.events
                        \o <<[ev |-> "run", category |-> AgentMapGet(category),
                              serial |-> g.agent.serial,
                              user_message |-> RunArgument(category, user_message)]>>
                        \o r.events
                        \o <<[ev |-> "ran", category |-> AgentMapGet(category),
                              end |-> r.outcome]>>]

\* How the constructor of an agent can end when the property is read: it is
\* not called when the attribute holds an agent.
ConstructorEnds(attr) == IF attr = None THEN BOOLEAN ELSE {TRUE}

\* One call of route(user_message) on the orchestrator of session s. answer
\* is what the classification request ends with; whether the constructor
\* succeeds and what the model service does during run are chosen where
\* route gets there. No statement of route or _classify is inside a try.
Route(s, user_message, answer) ==
    /\ ops < MaxOps
    /\ ops' = ops + 1
    /\ \E c \in {Classify(answer)}, asked \in {<<ClassifyRequest(user_message, answer)>>} :
        IF c.raised
        THEN RouteEnds(s, user_message, answer, c, Raises(c.cls), asked)
        ELSE IF HasGetter(c.value)
        THEN \E ok \in ConstructorEnds(agent_attr[Owner(s)][AgentMapGet(c.value)]) :
             \E g \in {LazyAgent(AgentMapGet(c.value), agent_attr[Owner(s)][AgentMapGet(c.value)],
                                 constructed[Owner(s)][AgentMapGet(c.value)], ok)} :
                IF g.raised
                THEN RouteEnds(s, user_message, answer, c, Raises("OperationalError"),
                               asked \o g.events)
                ELSE \E script \in Scripts :
                        RouteRuns(s, user_message, answer, c, g, asked, script)
        ELSE RouteEnds(s, user_message, answer, c,
                       Returns(<<"GENERAL", GeneralText>>), asked)

\* The order in which reset goes through the attributes.
ResetOrder == <<"CALENDAR", "EMAIL", "INVOICE", "SOCIAL", "CRM">>

\* BaseAgent.reset on a cached agent.
ResetAgent(agent) == [agent EXCEPT !.conversation_history = <<>>]

\* Faulty variant: reset drops the cached agents.
ResetAttrs_DropsAgents(attrs) == [c \in AgentLabels |-> None]

\* The attributes after Orchestrator.reset.
ResetAttrs(attrs) ==
    [c \in AgentLabels |-> IF attrs[c] # None THEN ResetAgent(attrs[c]) ELSE attrs[c]]

\* One call of reset on the orchestrator of session s.
OrchReset(s) ==
    /\ agent_attr' = [agent_attr EXCEPT ![Owner(s)] = ResetAttrs(agent_attr[Owner(s)])]
    /\ \E held \in {SelectSeq(ResetOrder, LAMBDA c : agent_attr[Owner(s)][c] # None)} :
          last' = [session |-> s, op |-> "reset", user_message |-> "",
                   answer |-> "none", classify |-> "none",
                   outcome |-> Returns("None"),
                   events |-> [j \in 1..Len(held) |->
                                 [ev |-> "reset", category |-> held[j],
                                  turns |-> Len(agent_attr[Owner(s)][held[j]].conversation_history)]]]
    /\ ops < MaxOps
    /\ ops' = ops + 1
    /\ UNCHANGED constructed

\* The sessions of the application, each calling route and reset on its own
\* orchestrator; no agent runs outside a route.
InitOrch == Init /\ max_tool_rounds = MaxRounds

NextOrch ==
    \/ \E s \in Sessions, user_message \in UserMessages, answer \in ClassifierAnswers :
          Route(s, user_message, answer) /\ UNCHANGED <<vars, toolVars>>
    \/ \E s \in Sessions : OrchReset(s) /\ UNCHANGED <<vars, toolVars>>

SpecOrch == InitOrch /\ [][NextOrch]_<<vars, orchVars, toolVars>>

\* One session that sends different messages, in any order and any number of
\* times, to its orchestrator.
RouteMessages == UserMessages \cup {"Send Dana the invoice for Friday's gig."}

NextOneSession ==
    \/ \E user_message \in RouteMessages, answer \in ClassifierAnswers :
          Route("A", user_message, answer) /\ UNCHANGED <<vars, toolVars>>
    \/ OrchReset("A") /\ UNCHANGED <<vars, toolVars>>

SpecOneSession == InitOrch /\ [][NextOneSession]_<<vars, orchVars, toolVars>>

\* -------------------------------------------------- execute_tool on its own

\* The names execute_tool is called with: tools of the agents, names in none
\* of the chains, the empty name and a name in another case.
CallNames ==
    {"delete_event", "send_draft", "mark_paid", "get_invoice", "delete_post",
     "get_contact", "unknown_tool", "", "Delete_Event"}

CallInputs == {NoEventId, WithEventId, WithInvoiceId, <<<<"name", "unknown_tool">>>>}

\* self.execute_tool(tool_name, tool_input) is called on the agent of a category.
CallExecuteTool ==
    /\ result.done \/ call = NoCall
    /\ \E category \in AgentLabels, tool_name \in CallNames, tool_input \in CallInputs :
          call' = [category |-> category, tool_name |-> tool_name,
                   tool_input |-> tool_input]
    /\ result' = NoResult

\* The tool-use block run makes the call for.
CallBlock == ToolUseBlock("toolu_1", call.tool_name, call.tool_input)

\* The call ends: execute_tool returns or raises, and the try statement of
\* run builds the tool result of the call.
ExecuteToolEnds ==
    /\ call # NoCall
    /\ ~result.done
    /\ \E x \in ExecuteToolCalls(call.category, call.tool_name, call.tool_input) :
          result' = [done |-> TRUE, end |-> x.end, backend |-> x.backend,
                     tool_result |-> ToolResultOf(CallBlock, x.end)]
    /\ UNCHANGED call

NextTools ==
    \/ CallExecuteTool /\ UNCHANGED <<vars, orchVars>>
    \/ ExecuteToolEnds /\ UNCHANGED <<vars, orchVars>>

SpecTools == InitOrch /\ [][NextTools]_<<vars, orchVars, toolVars>>

\* ---------------------------------------------------------------- helpers

Last(q) == q[Len(q)]

IsPrefix(p, q) == Len(p) <= Len(q) /\ SubSeq(q, 1, Len(p)) = p

\* The tool-use blocks of a content, in order.
ToolUseBlocks(content) == SelectSeq(content, IsToolUseBlock)

Ended == pc \in {"TERMINAL_TEXT", "TERMINAL_BOUND", "RAISED"}

\* Every model request of the current run was answered by a tool-use turn.
OnlyToolUseAnswers == \A j \in 1..Len(answers) : answers[j] = "tool_use"

\* The number of tool-use turns among the answers of the current run.
ToolUseAnswers == Cardinality({j \in 1..Len(answers) : answers[j] = "tool_use"})

\* The turns the current run has appended to the history.
Appended == SubSeq(conversation_history, len0 + 1, Len(conversation_history))

IsUserTextTurn(t) == t.role = "user" /\ "content" \in DOMAIN t

IsAssistantTextTurn(t) == t.role = "assistant" /\ "content" \in DOMAIN t

IsAssistantToolUseTurn(t) == t.role = "assistant" /\ "blocks" \in DOMAIN t

IsToolResultTurn(t) == t.role = "user" /\ "results" \in DOMAIN t

\* ------------------------------------------------------------------ claims

\* C1: one invocation of run issues at most max_tool_rounds model requests;
\* once that many have been issued the run does not stand at a further
\* request, and while it is in progress it always has a step to take, so
\* that it ends (returned or raised) without a request beyond the bound.
C1_AtMostNRequests ==
    /\ requests <= max_tool_rounds
    /\ (requests = max_tool_rounds => pc # "AWAITING_MODEL")
    /\ (Running => ENABLED (CreateMessage \/ ExecuteTool \/ FeedResults))
    /\ (pc = "TERMINAL_BOUND" => outcome.kind = "returned")

\* A run with a bound of at least two has used it up and returned.
C1_Witness ==
    /\ pc = "TERMINAL_BOUND"
    /\ max_tool_rounds >= 2
    /\ requests = max_tool_rounds

\* C2: a run whose every model request was answered by a tool-use turn ends
\* by returning the fixed fallback string after exactly max_tool_rounds
\* requests, and while it goes on it has issued no more than that.
C2_FallbackAfterExactlyN ==
    /\ (Ended /\ OnlyToolUseAnswers) =>
           /\ pc = "TERMINAL_BOUND"
           /\ outcome = [kind |-> "returned", value |-> FallbackText]
           /\ requests = max_tool_rounds
           /\ Len(answers) = max_tool_rounds
    /\ (Running /\ OnlyToolUseAnswers) => requests <= max_tool_rounds

\* Three tool-use answers in a row have ended a run with the fallback string.
C2_Witness ==
    /\ pc = "TERMINAL_BOUND"
    /\ OnlyToolUseAnswers
    /\ Len(answers) = 3
    /\ outcome.value = FallbackText

\* C3: when a run ends with a final turn after k tool-use turns, the history
\* is 2k + 2 turns longer than when run was called: the user turn, then per
\* tool round an assistant tool-use turn and a tool-result turn, then the
\* final assistant turn.
C3_HistoryGrowsBy2kPlus2 ==
    pc = "TERMINAL_TEXT" =>
        LET k == ToolUseAnswers IN
        /\ k < max_tool_rounds
        /\ Len(conversation_history) = len0 + 2 * k + 2
        /\ IsUserTextTurn(Appended[1])
        /\ \A j \in 1..k : /\ IsAssistantToolUseTurn(Appended[2 * j])
                           /\ IsToolResultTurn(Appended[2 * j + 1])
        /\ IsAssistantTextTurn(Appended[2 * k + 2])

\* A run has ended with a final turn after two tool rounds, on a history that
\* an earlier run had already filled.
C3_Witness ==
    /\ pc = "TERMINAL_TEXT"
    /\ ToolUseAnswers = 2
    /\ len0 > 0
    /\ Len(conversation_history) = len0 + 6

RECURSIVE Concatenated(_)
\* The parts one after the other, nothing between them.
Concatenated(parts) ==
    IF parts = <<>> THEN "" ELSE Concatenated(SubSeq(parts, 1, Len(parts) - 1)) \o Last(parts)

RECURSIVE NewlineSeparated(_)
\* The parts in order, a newline between each two that are consecutive.
NewlineSeparated(parts) ==
    IF parts = <<>> THEN ""
    ELSE IF Len(parts) = 1 THEN parts[1]
    ELSE NewlineSeparated(SubSeq(parts, 1, Len(parts) - 1)) \o "\n" \o Last(parts)

\* The texts of the text segments of the final turn, in order.
FinalSegments ==
    [j \in 1..Len(SelectSeq(response.content, IsTextBlock)) |->
        SelectSeq(response.content, IsTextBlock)[j].text]

\* C4 as stated: the value run returns on a final turn is the concatenation,
\* in order, of the turn's text segments and of nothing else, and is the
\* content of the assistant turn appended to the history.
C4_ReturnsConcatenation ==
    pc = "TERMINAL_TEXT" =>
        /\ outcome = [kind |-> "returned", value |-> Concatenated(FinalSegments)]
        /\ Last(conversation_history) = [role |-> "assistant", content |-> outcome.value]

\* C4 amended: the value run returns on a final turn is the turn's text
\* segments in order with one newline between consecutive segments, and is
\* the content of the assistant turn appended to the history.
C4_ReturnsNewlineJoined ==
    pc = "TERMINAL_TEXT" =>
        /\ outcome = [kind |-> "returned", value |-> NewlineSeparated(FinalSegments)]
        /\ Last(conversation_history) = [role |-> "assistant", content |-> outcome.value]

\* A run has returned the text of a final turn of two text segments.
C4_Witness ==
    /\ pc = "TERMINAL_TEXT"
    /\ Len(FinalSegments) = 2
    /\ outcome.value = "Done.\nAnything else?"

\* The tool-use requests of the round the run is in, or has just completed.
Calls == ToolUseBlocks(response.content)

\* The run is in a tool round or stands right after one.
InOrAfterToolRound ==
    \/ pc = "EXECUTING_TOOLS"
    \/ pc \in {"AWAITING_MODEL", "TERMINAL_BOUND"} /\ round_num > 0

\* The loop over the blocks of the round has come to its end.
BlocksDone ==
    \/ pc = "EXECUTING_TOOLS" /\ block_idx > Len(response.content)
    \/ pc \in {"AWAITING_MODEL", "TERMINAL_BOUND"} /\ round_num > 0

\* A dispatch of the round raised, or named a tool the agent does not have.
RoundHadFault ==
    \E j \in 1..Len(dispatched) :
        dispatched[j].end.raised \/ dispatched[j].name \notin ToolNames

C6_FaultIsLocalToItsCall ==
    InOrAfterToolRound =>
        /\ Len(dispatched) <= Len(Calls)
        /\ Len(tool_results) = Len(dispatched)
        /\ \A j \in 1..Len(dispatched) :
            /\ dispatched[j].id = Calls[j].id
            /\ tool_results[j].tool_use_id = Calls[j].id
            /\ dispatched[j].end.raised =>
                   /\ tool_results[j].is_error = TRUE
                   /\ tool_results[j].content =
                          "Error executing tool: " \o dispatched[j].end.message
        /\ BlocksDone => Len(dispatched) = Len(Calls)

\* A round of three calls is done in which the first and the last raised and
\* the one between them returned.
C6_Witness ==
    /\ BlocksDone
    /\ Len(dispatched) = 3
    /\ dispatched[1].end.raised
    /\ ~dispatched[2].end.raised
    /\ dispatched[3].end.raised
    /\ ~tool_results[2].is_error

\* C7 as stated: the tool result built for a tool name the agent does not
\* recognize has is_error = true, as for a dispatch fault; and after a turn
\* with one known and one unknown call both results are one user turn and
\* the round counter has gone up by one.
C7_UnknownToolIsError ==
    /\ InOrAfterToolRound =>
           \A j \in 1..Len(tool_results) :
               dispatched[j].name \notin ToolNames => tool_results[j].is_error = TRUE
    /\ (pc = "AWAITING_MODEL" /\ round_num > 0 /\ response.content = ContentKnownAndUnknown) =>
           /\ Last(conversation_history) = [role |-> "user", results |-> tool_results]
           /\ Len(tool_results) = 2
           /\ round_num = requests

\* The result built for the unknown tool: not flagged, the error in its content.
C7_UnknownToolResultUnflagged ==
    /\ pc = "AWAITING_MODEL"
    /\ response.content = ContentKnownAndUnknown
    /\ Last(conversation_history).results[2] =
           [type |-> "tool_result", tool_use_id |-> "b",
            content |-> "{\"error\": \"Unknown tool: unknown_tool\"}", is_error |-> FALSE]

\* C8: at a model request that follows a tool-use turn, the last two turns of
\* the history are that assistant turn and a tool-result turn with exactly
\* one result for each tool-use request of the turn, under the request's id,
\* and with no result for an id that was not requested.
C8_OneResultPerRequest ==
    (pc = "AWAITING_MODEL" /\ round_num > 0) =>
        LET n == Len(conversation_history)
            a == conversation_history[n - 1]
            r == conversation_history[n]
        IN  /\ IsAssistantToolUseTurn(a)
            /\ IsToolResultTurn(r)
            /\ a.blocks = response.content
            /\ \A i \in 1..Len(a.blocks) :
                   IsToolUseBlock(a.blocks[i]) =>
                       Cardinality({j \in 1..Len(r.results) :
                                        r.results[j].tool_use_id = a.blocks[i].id}) = 1
            /\ \A j \in 1..Len(r.results) :
                   \E i \in 1..Len(a.blocks) :
                       /\ IsToolUseBlock(a.blocks[i])
                       /\ a.blocks[i].id = r.results[j].tool_use_id

\* A model request follows a turn of three tool-use requests, of which the
\* history holds three results.
C8_Witness ==
    /\ pc = "AWAITING_MODEL"
    /\ round_num > 0
    /\ Len(Calls) = 3
    /\ Len(Last(conversation_history).results) = 3

\* C9: within a run, the history sent with a model request is the whole
\* history; the one sent in round k+1 is the one sent in round k followed by
\* exactly the assistant turn and the tool-result turn of round k; and no
\* step of run removes, replaces or reorders a turn: the history before a
\* step is a prefix of the history after it.
C9_HistoryAppendOnly ==
    [][/\ (Running \/ Running') =>
              IsPrefix(conversation_history, conversation_history')
       /\ (pc = "AWAITING_MODEL" /\ requests' = requests + 1) =>
              /\ sent' = conversation_history
              /\ requests > 0 =>
                     sent' = sent \o <<[role |-> "assistant", blocks |-> response.content],
                                       [role |-> "user", results |-> tool_results]>>
      ]_vars

\* The third model request of a run has been sent, on a history that an earlier
\* run had already filled.
C9_Witness ==
    /\ requests = 3
    /\ len0 > 0
    /\ Len(sent) = len0 + 5

\* The bound-exhaustion events in the log of the current run.
HitMaxEvents == {j \in 1..Len(log) : log[j] = "hit_max_tool_rounds"}

\* C10: when a run ends by bound exhaustion, every one of its max_tool_rounds
\* requests was answered by a tool-use turn, the history holds exactly
\* 2 * max_tool_rounds turns after the user turn of the run, the last of them
\* a tool-result turn (the fallback string is returned, not appended), and
\* one bound-exhaustion event is logged; a run that has not ended so has
\* logged none.
C10_BoundExhaustion ==
    /\ pc = "TERMINAL_BOUND" =>
           /\ OnlyToolUseAnswers
           /\ Len(answers) = max_tool_rounds
           /\ outcome = [kind |-> "returned", value |-> FallbackText]
           /\ Len(conversation_history) = len0 + 1 + 2 * max_tool_rounds
           /\ IsUserTextTurn(conversation_history[len0 + 1])
           /\ IsToolResultTurn(Last(conversation_history))
           /\ \A j \in 1..Len(conversation_history) :
                  IsAssistantTextTurn(conversation_history[j]) =>
                      conversation_history[j].content # FallbackText
           /\ Cardinality(HitMaxEvents) = 1
    /\ pc # "TERMINAL_BOUND" => HitMaxEvents = {}

\* A run with a bound of three has ended by bound exhaustion, six turns after
\* its user turn.
C10_Witness ==
    /\ pc = "TERMINAL_BOUND"
    /\ max_tool_rounds = 3
    /\ Len(conversation_history) = len0 + 7
    /\ log[Len(log)] = "hit_max_tool_rounds"

\* C11: reset is total and idempotent. It can be called whenever no run is
\* in progress; the agent it leaves has an empty history, whatever the runs
\* before it did and however they ended, and the same max_tool_rounds; on an
\* agent that is already empty it changes nothing. The run that follows
\* starts from the new user message alone, and that single turn is what its
\* first model request receives.
C11_ResetLeavesEmptyHistory ==
    /\ [](~Running => ENABLED Reset)
    /\ [](pc = "IDLE" => conversation_history = <<>>)
    /\ [][(~Running /\ pc' = "IDLE")
            => /\ conversation_history' = <<>>
               /\ max_tool_rounds' = max_tool_rounds]_vars
    /\ [][(pc = "IDLE" /\ Running')
            => /\ Len(conversation_history') = 1
               /\ IsUserTextTurn(conversation_history'[1])
               /\ conversation_history'[1].content \in UserMessages]_vars
    /\ []((requests = 1 /\ len0 = 0)
            => /\ Len(sent) = 1
               /\ IsUserTextTurn(sent[1]))

\* A run after a reset that followed earlier requests has issued its first request.
C11_Witness ==
    /\ requests = 1
    /\ len0 = 0
    /\ total_requests >= 2
    /\ Len(sent) = 1

\* ------------------------------------------------- claims on the orchestrator

allVars == <<vars, orchVars, toolVars>>

RequestEvents(l) == SelectSeq(l.events, LAMBDA e : e.ev = "request")

\* The model requests of the run of a route, in order.
RunRequests(l) == SelectSeq(l.events, LAMBDA e : e.ev = "request" /\ e.by # "ROUTER")

RunEvents(l) == SelectSeq(l.events, LAMBDA e : e.ev = "run")

RanEvents(l) == SelectSeq(l.events, LAMBDA e : e.ev = "ran")

ConstructEvents(l) == SelectSeq(l.events, LAMBDA e : e.ev = "construct")

\* The last operation was a route whose classification returned a label.
Classified == last.op = "route" /\ ~last.classify.raised

\* The last operation was a route whose classification returned the label of an agent.
ClassifiedToAgent == Classified /\ last.classify.value \in AgentLabels

\* The step is a route that ran the agent of a label.
RouteRan(l) == l.op = "route" /\ RunEvents(l) # <<>>

\* C12: for every response the classification request returns, _classify
\* returns a label of the closed set, GENERAL when the text of the response is
\* not one of them, and raises nothing.
C12_ClassifyNeverThrows ==
    (last.op = "route" /\ ~last.answer.raises)
        => /\ ~last.classify.raised
           /\ last.classify.value \in ValidCategories
           /\ (\/ Len(last.answer.content) = 0
               \/ Normalise(last.answer.content[1].text) \notin ValidCategories)
                  => last.classify.value = "GENERAL"

\* The classification request returned a response without blocks, and the
\* IndexError of content[0] left _classify and route.
C12_EmptyContentRaises ==
    /\ last.op = "route"
    /\ ~last.answer.raises
    /\ last.answer.content = <<>>
    /\ last.classify.raised
    /\ last.classify.cls = "IndexError"
    /\ last.outcome = Raises("IndexError")

\* C13: a route whose classification yields GENERAL, named by the classifier
\* or by the fallback, returns GENERAL with the static text; its one event is
\* the classification request (no agent constructed, no run, no further
\* request), and it leaves every attribute and every history as it was.
C13_GeneralIsStatic ==
    /\ []((Classified /\ last.classify.value = "GENERAL")
            => /\ last.outcome = Returns(<<"GENERAL", GeneralText>>)
               /\ Len(last.events) = 1
               /\ last.events[1].ev = "request"
               /\ last.events[1].by = "ROUTER")
    /\ [][(/\ ops' = ops + 1
           /\ last'.op = "route"
           /\ ~last'.classify.raised
           /\ last'.classify.value = "GENERAL")
            => /\ agent_attr' = agent_attr
               /\ constructed' = constructed]_allVars

\* A text outside the closed set fell back to GENERAL in a session whose
\* agent holds a history.
C13_Witness ==
    /\ Classified
    /\ last.classify.value = "GENERAL"
    /\ last.answer.content = <<TextBlock(TextUnsure)>>
    /\ \E c \in AgentLabels :
          agent_attr[last.session][c].conversation_history # <<>>

C15_AlwaysRunsAndReturns ==
    ClassifiedToAgent
        => /\ Len(RunEvents(last)) = 1
           /\ RunEvents(last)[1].user_message = last.user_message
           /\ RunEvents(last)[1].category = last.classify.value
           /\ last.outcome.kind = "returned"
           /\ last.outcome.value = <<last.classify.value, RanEvents(last)[1].end.value>>

\* C15: when the classifier yields the label of an agent, route gets the
\* agent of that label and, unless its constructor raises, calls its run
\* exactly once, with the message as route received it. When run returns,
\* route returns the label and the text of run as they are; when run raises,
\* route raises the same exception. No other agent runs.
C15_RunsOnceAndReturnsThePair ==
    ClassifiedToAgent
        => \/ /\ last.outcome = Raises("OperationalError")
              /\ RunEvents(last) = <<>>
              /\ \E j \in DOMAIN last.events :
                    last.events[j].ev = "construct" /\ ~last.events[j].ok
           \/ /\ Len(RunEvents(last)) = 1
              /\ Len(RanEvents(last)) = 1
              /\ RunEvents(last)[1].user_message = last.user_message
              /\ RunEvents(last)[1].category = last.classify.value
              /\ \A j \in DOMAIN last.events :
                    last.events[j].ev = "request"
                        => last.events[j].by \in {"ROUTER", last.classify.value}
              /\ IF RanEvents(last)[1].end.kind = "returned"
                 THEN last.outcome =
                        Returns(<<last.classify.value, RanEvents(last)[1].end.value>>)
                 ELSE last.outcome = RanEvents(last)[1].end

\* A padded lower-case label resolved to the calendar agent, whose run took
\* two rounds and returned its text.
C15_Witness ==
    /\ ClassifiedToAgent
    /\ last.answer.content = <<TextBlock(TextCalendarPadded)>>
    /\ Len(RunRequests(last)) = 2
    /\ last.outcome = Returns(<<"CALENDAR", "Done.\nAnything else?">>)

\* C16: a reset of an orchestrator empties the history of each agent it has
\* constructed and does nothing else: the instances stay in their attributes,
\* the attributes without agent stay empty, nothing is constructed, no model
\* request is issued, and the other orchestrator is left as it was.
C16_ResetEmptiesConstructedAgents ==
    /\ [](last.op = "reset"
            => /\ \A c \in AgentLabels :
                    agent_attr[last.session][c].conversation_history = <<>>
               /\ \A j \in DOMAIN last.events : last.events[j].ev = "reset"
               /\ \A c \in AgentLabels :
                    (agent_attr[last.session][c] # None)
                        <=> (\E j \in DOMAIN last.events : last.events[j].category = c))
    /\ [][(ops' = ops + 1 /\ last'.op = "reset")
            => /\ constructed' = constructed
               /\ \A s \in Sessions, c \in AgentLabels :
                    /\ agent_attr'[s][c].serial = agent_attr[s][c].serial
                    /\ agent_attr'[s][c].max_tool_rounds = agent_attr[s][c].max_tool_rounds
                    /\ agent_attr'[s][c].conversation_history =
                          IF s = last'.session THEN <<>>
                          ELSE agent_attr[s][c].conversation_history]_allVars

\* A reset emptied the history of a constructed agent, which stays cached,
\* next to an attribute that holds no agent.
C16_Witness ==
    /\ last.op = "reset"
    /\ \E c \in AgentLabels :
          /\ agent_attr[last.session][c] # None
          /\ constructed[last.session][c] = 1
          /\ \E j \in DOMAIN last.events :
                last.events[j].category = c /\ last.events[j].turns > 0
    /\ \E c \in AgentLabels : agent_attr[last.session][c] = None

\* C17: a model request that fails, the classification request or the
\* request of any round of run, ends the route with the exception of the
\* client: no label, text or tool result stands in for it, and the route
\* issues no request after it.
C17_ModelFailurePropagates ==
    last.op = "route"
        => /\ last.answer.raises
                => /\ last.classify.raised
                   /\ last.classify.cls = "APIConnectionError"
           /\ \A j \in DOMAIN last.events :
                (last.events[j].ev = "request" /\ last.events[j].answer = "raised")
                    => /\ last.outcome = Raises("APIConnectionError")
                       /\ \A k \in DOMAIN last.events :
                            k > j => /\ last.events[k].ev = "ran"
                                     /\ last.events[k].end = Raises("APIConnectionError")

\* The request of the second round of a run failed, and the route raised.
C17_Witness ==
    /\ last.op = "route"
    /\ Len(RunRequests(last)) = 2
    /\ RunRequests(last)[2].answer = "raised"
    /\ last.outcome = Raises("APIConnectionError")

\* C18, as stated: a route raises only when one of its model requests failed.
C18_RaisesOnlyOnModelFailure ==
    (last.op = "route" /\ last.outcome.kind = "raised")
        => \E j \in DOMAIN last.events :
              last.events[j].ev = "request" /\ last.events[j].answer = "raised"

\* The constructor of an agent raised while every model request of the route
\* was answered, and the exception left the route.
C18_ConstructorFaultEscapes ==
    /\ last.op = "route"
    /\ last.outcome = Raises("OperationalError")
    /\ \E j \in DOMAIN last.events :
          last.events[j].ev = "construct" /\ ~last.events[j].ok
    /\ \A j \in DOMAIN last.events :
          last.events[j].ev = "request" => last.events[j].answer = "returned"

\* C19: an operation of one orchestrator leaves the attributes, instances
\* and histories of the other as they were, and works on its own: the run of
\* a route starts from the history its own instance holds, and a reset
\* empties the histories of its own instances. The histories of a session
\* are those its own operations made.
C19_SessionsAreIsolated ==
    /\ [][\A t \in Sessions :
            t # last'.session
                => /\ agent_attr'[t] = agent_attr[t]
                   /\ constructed'[t] = constructed[t]]_allVars
    /\ [][(ops' = ops + 1 /\ RouteRan(last'))
            => /\ RunRequests(last')[1].messages =
                    Append(agent_attr[last'.session][last'.classify.value]
                               .conversation_history,
                           UserTurn(last'.user_message))
               /\ agent_attr'[last'.session][last'.classify.value].conversation_history
                    # agent_attr[last'.session][last'.classify.value].conversation_history
          ]_allVars
    /\ [][(ops' = ops + 1 /\ last'.op = "reset")
            => \A c \in AgentLabels :
                  agent_attr'[last'.session][c].conversation_history = <<>>]_allVars

\* Both sessions routed to the same label, and each holds its own turns.
C19_Witness ==
    \E c \in AgentLabels :
        /\ agent_attr["A"][c].conversation_history # <<>>
        /\ agent_attr["B"][c].conversation_history # <<>>
        /\ agent_attr["A"][c].conversation_history
              # agent_attr["B"][c].conversation_history
        /\ last.session = "B"

\* C20: execute_tool of each of the five agents, called with a name that is
\* not one of the agent's tools, raises nothing whatever the input is: it
\* returns a dict whose error entry names the tool, and it invokes no
\* operation of the agent's backend.
C20_UnknownToolReturnsError ==
    (result.done /\ call.tool_name \notin AgentToolNames(call.category))
        => /\ ~result.end.raised
           /\ result.end.value.kind = "dict"
           /\ result.end.value.items = <<<<"error", "Unknown tool: " \o call.tool_name>>>>
           /\ result.backend = <<>>

\* The CRM agent was called with a tool of the calendar agent and an input
\* that carries its key.
C20_Witness ==
    /\ result.done
    /\ call.category = "CRM"
    /\ call.tool_name = "delete_event"
    /\ call.tool_input = WithEventId
    /\ ~result.end.raised

\* ------------------------------------------------- claims on the state machine

\* A step that is the call of run: between runs, one turn is appended.
RunIsCalled ==
    ~Running /\ Len(conversation_history') = Len(conversation_history) + 1

TerminalStates == {"TERMINAL_TEXT", "TERMINAL_BOUND"}

\* C21 as stated: every run starts in AWAITING_MODEL; EXECUTING_TOOLS always
\* goes back to AWAITING_MODEL, so that after the tools of any round, the last
\* permitted one included, the next step of the run is a model request; and a
\* terminal state is only entered from AWAITING_MODEL.
C21_ToolsAlwaysLeadToARequest ==
    [][/\ RunIsCalled => pc' = "AWAITING_MODEL"
       /\ (pc = "EXECUTING_TOOLS" /\ pc' # "EXECUTING_TOOLS") => pc' = "AWAITING_MODEL"
       /\ pc = "AWAITING_MODEL" => requests' = requests + 1
       /\ (pc' \in TerminalStates /\ pc' # pc) => pc = "AWAITING_MODEL"
      ]_vars

\* C21 amended: every run starts in AWAITING_MODEL with no request issued, and
\* the step taken in AWAITING_MODEL is a model request, which leads to
\* EXECUTING_TOOLS, to TERMINAL_TEXT or out of run by its exception.
\* EXECUTING_TOOLS goes back to AWAITING_MODEL after the tools of every round
\* but the last permitted one; after the tools of the last permitted round it
\* goes to TERMINAL_BOUND, with no model request between. TERMINAL_TEXT is only
\* entered from AWAITING_MODEL, TERMINAL_BOUND only from EXECUTING_TOOLS.
C21_ToolsLeadToARequestOrTheBound ==
    [][/\ RunIsCalled => /\ pc' = "AWAITING_MODEL"
                         /\ requests' = 0
                         /\ round_num' = 0
       /\ pc = "AWAITING_MODEL" =>
              /\ requests' = requests + 1
              /\ pc' \in {"EXECUTING_TOOLS", "TERMINAL_TEXT", "RAISED"}
       /\ (pc = "EXECUTING_TOOLS" /\ pc' # "EXECUTING_TOOLS") =>
              /\ block_idx > Len(response.content)
              /\ requests' = requests
              /\ IF round_num + 1 < max_tool_rounds
                 THEN pc' = "AWAITING_MODEL" /\ round_num' = round_num + 1
                 ELSE pc' = "TERMINAL_BOUND"
       /\ (pc' = "TERMINAL_TEXT" /\ pc # pc') => pc = "AWAITING_MODEL"
       /\ (pc' = "TERMINAL_BOUND" /\ pc # pc') =>
              /\ pc = "EXECUTING_TOOLS"
              /\ requests = max_tool_rounds
      ]_vars

\* The tools of the third and last permitted round were executed, and the run
\* has ended by the bound with three requests issued.
C21_Witness ==
    /\ pc = "TERMINAL_BOUND"
    /\ max_tool_rounds = 3
    /\ requests = 3
    /\ Len(dispatched) > 0

\* A step that issues a model request, and one that makes a tool call.
RequestIsIssued == requests' = requests + 1

ToolIsCalled == Len(dispatched') = Len(dispatched) + 1

\* C22: run is strictly sequential. A step of a run is one model request or
\* one tool call, never both and never two of a kind, each ended before the
\* next step is taken: a request is issued only in AWAITING_MODEL, a tool is
\* called only in EXECUTING_TOOLS. The request of round k+1 is issued only
\* when every tool call of round k has ended, with one result each, and the
\* tool-result turn holding all of these results is the last turn of the
\* history, right after the assistant turn of round k.
C22_StrictlySequential ==
    [][/\ (Running \/ Running') =>
              /\ requests' \in {requests, requests + 1} \/ RunIsCalled
              /\ Len(dispatched') \in {0, Len(dispatched), Len(dispatched) + 1}
              /\ ~(RequestIsIssued /\ ToolIsCalled)
       /\ RequestIsIssued => pc = "AWAITING_MODEL"
       /\ ToolIsCalled => /\ pc = "EXECUTING_TOOLS"
                          /\ requests' = requests
                          /\ conversation_history' = conversation_history
       /\ (RequestIsIssued /\ requests > 0) =>
              LET n == Len(conversation_history) IN
              /\ Len(dispatched) = Len(Calls)
              /\ \A j \in 1..Len(Calls) : dispatched[j].id = Calls[j].id
              /\ Len(tool_results) = Len(Calls)
              /\ conversation_history[n] = ToolResultTurn(tool_results)
              /\ conversation_history[n - 1] = AssistantToolUseTurn(response)
              /\ sent' = conversation_history
      ]_vars

\* The second request of a run was issued after a round of three tool calls.
C22_Witness ==
    /\ pc = "TERMINAL_TEXT"
    /\ requests = 2
    /\ Len(dispatched) = 3
    /\ Len(sent) = len0 + 3
    /\ Len(Last(sent).results) = 3

\* C23: bound exhaustion is not fatal. An agent whose run ended with the
\* fallback string accepts a further run; that run starts in AWAITING_MODEL
\* with no request issued and the round count at zero, against the same
\* max_tool_rounds, on the history the earlier runs left with the new user
\* turn appended; and its first model request receives exactly that history.
C23_RunAfterBoundExhaustion ==
    /\ []((pc = "TERMINAL_BOUND" /\ total_requests + max_tool_rounds <= MaxRequests)
            => ENABLED (\E user_message \in UserMessages : Run(user_message)))
    /\ [][(pc = "TERMINAL_BOUND" /\ RunIsCalled)
            => /\ outcome = [kind |-> "returned", value |-> FallbackText]
               /\ pc' = "AWAITING_MODEL"
               /\ requests' = 0
               /\ round_num' = 0
               /\ max_tool_rounds' = max_tool_rounds
               /\ len0' = Len(conversation_history)
               /\ \E user_message \in UserMessages :
                     conversation_history' =
                         Append(conversation_history, UserTurn(user_message))]_vars
    /\ [][(RequestIsIssued /\ requests = 0)
            => /\ sent' = conversation_history
               /\ Len(sent') = len0 + 1
               /\ IsUserTextTurn(Last(sent'))]_vars
    /\ [](requests <= max_tool_rounds)

\* With a bound of two, a run that followed a run ended by the bound has used
\* its own two requests, the first of them sent with the five turns of the
\* earlier run and the new user turn.
C23_Witness ==
    /\ max_tool_rounds = 2
    /\ total_requests = 4
    /\ requests = 2
    /\ len0 = 5
    /\ IsToolResultTurn(conversation_history[len0])
    /\ IsUserTextTurn(conversation_history[len0 + 1])
    /\ Len(sent) >= len0 + 1

\* ------------------------------------------------ claims on the classification

\* The label a text of the classifier stands for, text by text.
ExpectedLabel(text) ==
    CASE text \in {TextCalendar, TextCalendarPadded} -> "CALENDAR"
      [] text = TextEmail -> "EMAIL"
      [] text = TextInvoice -> "INVOICE"
      [] text = TextSocial -> "SOCIAL"
      [] text = TextCrm -> "CRM"
      [] OTHER -> "GENERAL"

\* The requests of a route that _classify issued.
RouterRequests(l) == SelectSeq(l.events, LAMBDA e : e.ev = "request" /\ e.by = "ROUTER")

\* A step that is a call of route.
RouteIsCalled == ops' = ops + 1 /\ last'.op = "route"

\* C24: classification is stateless. The request _classify sends is the fixed
\* router prompt and one user turn, the message route was called with,
\* whatever was classified or routed before; the label is a function of the
\* text the model answered with and of nothing else; and _classify changes no
\* agent and no attribute of the orchestrator: a route that ends in _classify
\* or returns the static text leaves them all as they were, and the agent a
\* route runs is handed its history as the route found it, with the message
\* appended.
C24_ClassificationIsStateless ==
    /\ [](last.op = "route" =>
            /\ Len(RouterRequests(last)) = 1
            /\ last.events[1] =
                   [ev |-> "request", by |-> "ROUTER", system |-> RouterPrompt,
                    tools |-> "none", max_tokens |-> 20,
                    messages |-> <<[role |-> "user", content |-> last.user_message]>>,
                    answer |-> IF last.answer.raises THEN "raised" ELSE "returned"]
            /\ Classified =>
                   last.classify.value = ExpectedLabel(last.answer.content[1].text))
    /\ [][RouteIsCalled =>
            LET l == last'
                s == l.session
            IN  /\ (l.classify.raised \/ l.classify.value = "GENERAL") =>
                       UNCHANGED <<agent_attr, constructed>>
                /\ (~l.classify.raised /\ l.classify.value \in AgentLabels) =>
                       /\ \A c \in AgentLabels \ {l.classify.value} :
                              agent_attr'[s][c] = agent_attr[s][c]
                       /\ RunRequests(l) # <<>> =>
                              RunRequests(l)[1].messages =
                                  agent_attr[s][l.classify.value].conversation_history
                                  \o <<[role |-> "user", content |-> l.user_message]>>
      ]_allVars

\* A message was classified after a different message had been routed to the
\* calendar agent, whose history holds it: the request carried the new
\* message alone.
C24_Witness ==
    /\ last.op = "route"
    /\ ops = 2
    /\ Classified
    /\ last.classify.value = "GENERAL"
    /\ agent_attr["A"]["CALENDAR"].conversation_history # <<>>
    /\ agent_attr["A"]["CALENDAR"].conversation_history[1].content # last.user_message
    /\ last.events[1].messages = <<UserTurn(last.user_message)>>

\* The position of the first event of a kind among the events of a route, or
\* one past the last event when there is none.
FirstEvent(l, kind) ==
    IF \E j \in 1..Len(l.events) : l.events[j].ev = kind
    THEN CHOOSE j \in 1..Len(l.events) :
            /\ l.events[j].ev = kind
            /\ \A i \in 1..(j - 1) : l.events[i].ev # kind
    ELSE Len(l.events) + 1

\* C25: in every call of route the classification request is the first model
\* request, is made exactly once and carries no tool specifications. The
\* agent is resolved and its run started only after the classification has
\* returned a label: nothing follows a classification that raised, and the
\* constructor call, the call of run and every request of the agent come
\* after the first request, in this order. A route issues at least 1 and at
\* most 1 + max_tool_rounds model requests, and every request after the first
\* is the resolved agent's, with that agent's tool specifications.
C25_ClassifyFirstThenRun ==
    last.op = "route" =>
        LET reqs == RequestEvents(last) IN
        /\ last.events[1].ev = "request"
        /\ last.events[1].by = "ROUTER"
        /\ last.events[1].tools = "none"
        /\ Len(RouterRequests(last)) = 1
        /\ last.classify.raised => Len(last.events) = 1
        /\ \A j \in 2..Len(last.events) :
               /\ last.events[j].ev = "construct" => j = 2
               /\ last.events[j].ev = "request" =>
                      /\ FirstEvent(last, "run") < j
                      /\ FirstEvent(last, "construct") < FirstEvent(last, "run")
                             \/ ConstructEvents(last) = <<>>
        /\ Len(reqs) >= 1
        /\ Len(reqs) <= 1 + DefaultMaxToolRounds
        /\ Len(reqs) > 1 =>
               /\ Classified
               /\ last.classify.value \in AgentLabels
               /\ agent_attr[last.session][last.classify.value].max_tool_rounds
                      = DefaultMaxToolRounds
        /\ \A j \in 2..Len(reqs) :
               /\ reqs[j].by = last.classify.value
               /\ reqs[j].tools = last.classify.value
               /\ reqs[j].tools # "none"

\* A route has issued the classification request and then every one of the
\* requests the agent's bound allows, the agent constructed on the way.
C25_Witness ==
    /\ last.op = "route"
    /\ Len(RequestEvents(last)) = 1 + DefaultMaxToolRounds
    /\ ConstructEvents(last) # <<>>
    /\ last.outcome.value = <<"EMAIL", FallbackText>>

\* ------------------------------------------------------ claims on tool faults

\* A value that reports an error condition: a dict with the key "error".
IsErrorValue(v) == v.kind = "dict" /\ HasKey(v.items, "error")

\* C26 as stated: a tool fault becomes a tool result with is_error = true in
\* both of its forms, the dispatch raising and the dispatch returning an
\* error condition as its value (such as the error value for a record that
\* does not exist); a tool result is without the error flag only when the
\* dispatch succeeded.
C26_BothFormsOfFaultAreFlagged ==
    result.done =>
        /\ result.end.raised => result.tool_result.is_error = TRUE
        /\ (~result.end.raised /\ IsErrorValue(result.end.value)) =>
               result.tool_result.is_error = TRUE
        /\ result.tool_result.is_error = FALSE =>
               /\ ~result.end.raised
               /\ ~IsErrorValue(result.end.value)

\* get_invoice was called for an invoice that does not exist: the error value
\* it returned is the content of a tool result that is not flagged.
C26_NotFoundResultUnflagged ==
    /\ result.done
    /\ call.category = "INVOICE"
    /\ call.tool_name = "get_invoice"
    /\ result.end = Returned([kind |-> "dict",
                              items |-> <<<<"error", "Invoice not found: INV-404">>>>])
    /\ result.tool_result =
           [type |-> "tool_result", tool_use_id |-> "toolu_1",
            content |-> "{\"error\": \"Invoice not found: INV-404\"}",
            is_error |-> FALSE]

\* ------------------------------------------------ claims on the shape of the history

\* The roles of the turns alternate, from a user turn to a user turn.
RolesAlternate(h) ==
    /\ h # <<>>
    /\ h[1].role = "user"
    /\ Last(h).role = "user"
    /\ \A j \in 1..(Len(h) - 1) : h[j].role # h[j + 1].role

\* C27 as stated: at every model request issued by run, after any sequence
\* of earlier runs on the agent (runs ended by bound exhaustion or by a
\* failure of the model service included) and of resets, the roles of the
\* history sent strictly alternate, starting and ending with a user turn.
C27_RolesAlternateAtEveryRequest ==
    requests > 0 => RolesAlternate(sent)

\* The first request of a run that followed a run ended by the bound: the
\* tool-result turn the earlier run left and the new user turn, two user
\* turns in a row.
C27_UserTurnFollowsUserTurn ==
    /\ requests = 1
    /\ len0 > 0
    /\ Len(sent) = len0 + 1
    /\ IsToolResultTurn(sent[len0])
    /\ IsUserTextTurn(sent[len0 + 1])
    /\ sent[len0].role = sent[len0 + 1].role

\* C28: a run that fails because a model request raised does not roll the
\* history back. The request that raises leaves the history as it was sent:
\* the turns before the run, the user turn of the run, and the assistant and
\* tool-result turns of every round completed before the failure. The next
\* run on the agent appends its user turn to exactly that history, and its
\* first request sends all of it.
C28_FailedRunKeepsItsTurns ==
    /\ [](pc = "RAISED" =>
            /\ outcome.kind = "raised"
            /\ Last(answers) = "raised"
            /\ conversation_history = sent
            /\ Len(conversation_history) = len0 + 1 + 2 * (requests - 1)
            /\ IsUserTextTurn(conversation_history[len0 + 1])
            /\ \A j \in 1..(requests - 1) :
                   /\ IsAssistantToolUseTurn(conversation_history[len0 + 2 * j])
                   /\ IsToolResultTurn(conversation_history[len0 + 2 * j + 1]))
    /\ [][(pc = "AWAITING_MODEL" /\ pc' = "RAISED")
            => conversation_history' = conversation_history]_vars
    /\ [][(pc = "RAISED" /\ RunIsCalled)
            => /\ len0' = Len(conversation_history)
               /\ pc' = "AWAITING_MODEL"
               /\ \E user_message \in UserMessages :
                     conversation_history' =
                         Append(conversation_history, UserTurn(user_message))]_vars
    /\ [][(RequestIsIssued /\ requests = 0)
            => /\ sent' = conversation_history
               /\ Len(sent') > len0]_vars

\* The second request of a run raised after one tool round; the run that
\* followed has sent the three turns the failed run left and its own user turn.
C28_Witness ==
    /\ max_tool_rounds = 2
    /\ total_requests = 3
    /\ requests = 1
    /\ len0 = 3
    /\ Len(sent) = 4
    /\ IsUserTextTurn(sent[1])
    /\ IsAssistantToolUseTurn(sent[2])
    /\ IsToolResultTurn(sent[3])
    /\ IsUserTextTurn(sent[4])

\* The turn at j of h is an assistant tool-use turn that is followed by a tool-result
\* turn with one result for each of its tool-use blocks, in their order and
\* under their ids, and with no other result.
FollowedByItsResults(h, j) ==
    /\ j < Len(h)
    /\ IsToolResultTurn(h[j + 1])
    /\ LET uses == ToolUseBlocks(h[j].blocks)
           results == h[j + 1].results
       IN  /\ Len(results) = Len(uses)
           /\ \A k \in 1..Len(uses) : results[k].tool_use_id = uses[k].id

ToolUseTurnsAnswered(h) ==
    \A j \in 1..Len(h) : IsAssistantToolUseTurn(h[j]) => FollowedByItsResults(h, j)

\* C29: whenever run has returned normally or stands at a model request, and
\* in every history a request was sent with, each assistant tool-use turn of
\* the history is immediately followed by a user turn of tool results for
\* exactly the ids of that turn: such a turn is never the last turn of the
\* history and is never followed by a plain-text user turn.
C29_ToolUseTurnsAreAnswered ==
    /\ pc \in {"AWAITING_MODEL", "TERMINAL_TEXT", "TERMINAL_BOUND"} =>
           /\ ToolUseTurnsAnswered(conversation_history)
           /\ ~IsAssistantToolUseTurn(Last(conversation_history))
           /\ \A j \in 1..(Len(conversation_history) - 1) :
                  IsAssistantToolUseTurn(conversation_history[j]) =>
                      ~IsUserTextTurn(conversation_history[j + 1])
    /\ requests > 0 => ToolUseTurnsAnswered(sent)

\* A run has returned its final text on a history that holds a tool-use turn
\* of three calls and, right after it, their three results, and a tool-use
\* turn of an earlier run.
C29_Witness ==
    /\ pc = "TERMINAL_TEXT"
    /\ len0 > 0
    /\ \E j \in 1..len0 : IsAssistantToolUseTurn(conversation_history[j])
    /\ \E j \in (len0 + 1)..(Len(conversation_history) - 1) :
          /\ IsAssistantToolUseTurn(conversation_history[j])
          /\ Len(ToolUseBlocks(conversation_history[j].blocks)) = 3
          /\ Len(conversation_history[j + 1].results) = 3

\* C30: whether a model turn is a tool-use turn is decided by its stop reason
\* alone. A turn with the stop reason tool_use leads to EXECUTING_TOOLS with
\* its blocks appended as an assistant turn, also when none of them is a
\* tool-use block: the round then ends with a tool-result turn of an empty
\* result list and counts as a round. A turn with any other stop reason ends
\* the run with the text of its text blocks as the final assistant turn; the
\* tool-use blocks it carries are not dispatched and are in no turn of the
\* history. A tool is only ever called for a turn with the stop reason tool_use.
C30_StopReasonAloneDecides ==
    /\ [](pc = "EXECUTING_TOOLS" =>
            /\ response.stop_reason = "tool_use"
            /\ Last(conversation_history) = [role |-> "assistant", blocks |-> response.content])
    /\ [](pc = "TERMINAL_TEXT" =>
            /\ response.stop_reason # "tool_use"
            /\ Last(conversation_history) =
                   [role |-> "assistant", content |-> NewlineSeparated(FinalSegments)]
            /\ Len(conversation_history) = len0 + 2 * (requests - 1) + 2)
    /\ [][(RequestIsIssued /\ pc' # "RAISED") =>
             IF response'.stop_reason = "tool_use"
             THEN /\ pc' = "EXECUTING_TOOLS"
                  /\ Len(conversation_history') = Len(conversation_history) + 1
                  /\ dispatched' = <<>>
             ELSE /\ pc' = "TERMINAL_TEXT"
                  /\ Len(conversation_history') = Len(conversation_history) + 1
                  /\ dispatched' = dispatched
                  /\ tool_results' = tool_results]_vars
    /\ [][ToolIsCalled => /\ response.stop_reason = "tool_use"
                          /\ IsToolUseBlock(response.content[block_idx])]_vars
    /\ [][(pc = "EXECUTING_TOOLS" /\ pc' # "EXECUTING_TOOLS"
             /\ ToolUseBlocks(response.content) = <<>>) =>
             /\ conversation_history' =
                    Append(conversation_history, [role |-> "user", results |-> <<>>])
             /\ round_num' = round_num + 1
             /\ dispatched = <<>>]_vars

\* A run of two requests has ended: the first turn had the stop reason
\* tool_use and no block, and left an empty assistant turn and an empty
\* tool-result turn; the second had the stop reason max_tokens and carried a
\* tool-use block, which was not called and is not in the history.
C30_Witness ==
    /\ pc = "TERMINAL_TEXT"
    /\ answers = <<"tool_use", "max_tokens">>
    /\ conversation_history[len0 + 2] = [role |-> "assistant", blocks |-> <<>>]
    /\ conversation_history[len0 + 3] = [role |-> "user", results |-> <<>>]
    /\ \E j \in 1..Len(response.content) : IsToolUseBlock(response.content[j])
    /\ dispatched = <<>>
    /\ Last(conversation_history) = [role |-> "assistant", content |-> "Let me check."]
    /\ Len(conversation_history) = len0 + 4

\* ------------------------------------------------ claims on the order of dispatch

\* C31: the tool calls of one turn are dispatched in the order of their
\* tool-use blocks, one after the other: the calls made so far are the first
\* tool-use blocks of the turn, in order, each under its name and id. The
\* results collected are in that same order, one per call made, flagged where
\* the call raised and not flagged where it returned; and the tool-result
\* turn appended for the round holds them in the order of the blocks.
C31_DispatchInBlockOrder ==
    /\ InOrAfterToolRound =>
           /\ Len(dispatched) <= Len(Calls)
           /\ Len(tool_results) = Len(dispatched)
           /\ \A j \in 1..Len(dispatched) :
                  /\ dispatched[j].id = Calls[j].id
                  /\ dispatched[j].name = Calls[j].name
                  /\ tool_results[j].tool_use_id = Calls[j].id
                  /\ tool_results[j].is_error = dispatched[j].end.raised
           /\ pc = "EXECUTING_TOOLS" =>
                  Len(dispatched) =
                      Len(ToolUseBlocks(SubSeq(response.content, 1, block_idx - 1)))
    /\ (pc \in {"AWAITING_MODEL", "TERMINAL_BOUND"} /\ round_num > 0) =>
           LET results == Last(conversation_history).results IN
           /\ Len(results) = Len(Calls)
           /\ \A j \in 1..Len(Calls) :
                  /\ results[j].tool_use_id = Calls[j].id
                  /\ results[j].is_error = dispatched[j].end.raised

\* The tool-result turn of a round of three calls holds the results under the
\* ids a, b, c in this order: an error, a success, an error.
C31_Witness ==
    /\ pc = "AWAITING_MODEL"
    /\ round_num > 0
    /\ Len(Calls) = 3
    /\ LET results == Last(conversation_history).results IN
       /\ <<results[1].tool_use_id, results[2].tool_use_id, results[3].tool_use_id>>
              = <<"a", "b", "c">>
       /\ <<results[1].is_error, results[2].is_error, results[3].is_error>>
              = <<TRUE, FALSE, TRUE>>

\* ------------------------------------------------ claims on the labels

\* The labels of the closed set, letter by letter.
LabelLetters ==
    [CALENDAR |-> <<"C", "A", "L", "E", "N", "D", "A", "R">>,
     SOCIAL |-> <<"S", "O", "C", "I", "A", "L">>,
     INVOICE |-> <<"I", "N", "V", "O", "I", "C", "E">>,
     EMAIL |-> <<"E", "M", "A", "I", "L">>,
     CRM |-> <<"C", "R", "M">>,
     GENERAL |-> <<"G", "E", "N", "E", "R", "A", "L">>]

ClosedSet == DOMAIN LabelLetters

\* The character c is the capital letter u or its small letter.
SameLetter(c, u) ==
    \/ c = u
    \/ \E j \in 1..Len(UpperCase) : UpperCase[j] = u /\ LowerCase[j] = c

\* The text is the letters of a label, in either case, with nothing but
\* whitespace before and after them.
DiffersByCaseOrPadding(text, letters) ==
    \E i \in 0..Len(text) :
        /\ i + Len(letters) <= Len(text)
        /\ \A j \in 1..i : text[j] \in Whitespace
        /\ \A j \in 1..Len(letters) : SameLetter(text[i + j], letters[j])
        /\ \A j \in (i + Len(letters) + 1)..Len(text) : text[j] \in Whitespace

\* C32: the classifier's output is normalised before it is validated. When
\* the text of the first block of the answer is a label of the closed set but
\* for the case of its letters and for whitespace around it, _classify
\* returns that label, and route resolves the agent of that label and no
\* other; when the text is no label even so (empty, whitespace, another word,
\* a label among other words), _classify returns GENERAL. Blocks after the
\* first are not read.
C32_NormalisedBeforeValidation ==
    Classified =>
        LET text == last.answer.content[1].text IN
        /\ \A L \in ClosedSet :
               DiffersByCaseOrPadding(text, LabelLetters[L]) => last.classify.value = L
        /\ (\A L \in ClosedSet : ~DiffersByCaseOrPadding(text, LabelLetters[L])) =>
               last.classify.value = "GENERAL"
        /\ \A j \in 1..Len(last.events) :
               last.events[j].ev \in {"construct", "run", "ran"} =>
                   /\ last.events[j].category = last.classify.value
                   /\ last.classify.value # "GENERAL"
        /\ last.classify.value # "GENERAL" =>
               ConstructEvents(last) # <<>> \/ RunEvents(last) # <<>>

\* The answer " calendar\n" was resolved to CALENDAR and the calendar agent
\* was run.
C32_Witness ==
    /\ Classified
    /\ last.answer.content[1].text = TextCalendarPadded
    /\ last.classify.value = "CALENDAR"
    /\ RunEvents(last) # <<>>
    /\ RunEvents(last)[1].category = "CALENDAR"

\* C33: a route that resolves to the label L changes the agent of L and its
\* cache entry, and nothing else: the cache entries, instances and histories
\* of every other label, and of every label when the route ends in _classify
\* or with the static text, are as they were. The agent of L is the cached
\* instance, or a new one with an empty history on first use; its history
\* after the route is its history before it, then the user turn of the
\* routed message, then turns that are no plain user messages. So a plain
\* user message enters the history of an agent only by a route classified to
\* that agent's label.
C33_RouteChangesOnlyItsAgent ==
    [][RouteIsCalled =>
         LET l == last'
             s == l.session
         IN  /\ \A t \in Sessions, k \in AgentLabels :
                    (t # s \/ l.classify.raised \/ k # l.classify.value) =>
                        /\ agent_attr'[t][k] = agent_attr[t][k]
                        /\ constructed'[t][k] = constructed[t][k]
             /\ (~l.classify.raised /\ l.classify.value \in AgentLabels) =>
                    LET L == l.classify.value
                        before == agent_attr[s][L]
                        after == agent_attr'[s][L]
                        h0 == before.conversation_history
                        h1 == after.conversation_history
                    IN  IF RunEvents(l) = <<>>
                        THEN /\ after = before
                             /\ constructed'[s][L] = constructed[s][L]
                        ELSE /\ IF before = None
                                THEN /\ constructed'[s][L] = constructed[s][L] + 1
                                     /\ after.serial = constructed'[s][L]
                                ELSE /\ constructed'[s][L] = constructed[s][L]
                                     /\ after.serial = before.serial
                             /\ Len(h1) > Len(h0)
                             /\ SubSeq(h1, 1, Len(h0)) = h0
                             /\ h1[Len(h0) + 1] = [role |-> "user", content |-> l.user_message]
                             /\ \A j \in (Len(h0) + 2)..Len(h1) : ~IsUserTextTurn(h1[j])
      ]_allVars

\* Two messages were routed, one to the calendar agent and then the other to
\* the email agent: each agent's history starts with the message routed to it.
C33_Witness ==
    /\ last.op = "route"
    /\ Classified
    /\ last.classify.value = "EMAIL"
    /\ agent_attr["A"]["CALENDAR"].conversation_history # <<>>
    /\ agent_attr["A"]["EMAIL"].conversation_history # <<>>
    /\ agent_attr["A"]["EMAIL"].conversation_history[1].content = last.user_message
    /\ agent_attr["A"]["CALENDAR"].conversation_history[1].content # last.user_message
    /\ \A j \in 1..Len(agent_attr["A"]["CALENDAR"].conversation_history) :
          IsUserTextTurn(agent_attr["A"]["CALENDAR"].conversation_history[j]) =>
              agent_attr["A"]["CALENDAR"].conversation_history[j].content # last.user_message

\* C34: the label route returns is always one of CALENDAR, SOCIAL, INVOICE,
\* EMAIL, CRM and GENERAL, and in a route that returns, the run of an agent
\* was invoked if and only if the label returned is not GENERAL: it was then
\* invoked once, on the agent of the label returned, which is the label
\* _classify gave. A route in which run was invoked and raised was
\* classified to a label other than GENERAL.
C34_LabelInClosedSetAndRunIffNotGeneral ==
    /\ (last.op = "route" /\ last.outcome.kind = "returned") =>
           LET label == last.outcome.value[1] IN
           /\ label \in {"CALENDAR", "SOCIAL", "INVOICE", "EMAIL", "CRM", "GENERAL"}
           /\ RunEvents(last) # <<>> <=> label # "GENERAL"
           /\ label # "GENERAL" =>
                  /\ Len(RunEvents(last)) = 1
                  /\ RunEvents(last)[1].category = label
                  /\ label = last.classify.value
           /\ label = "GENERAL" => RunRequests(last) = <<>>
    /\ (last.op = "route" /\ RunEvents(last) # <<>>) =>
           /\ ~last.classify.raised
           /\ last.classify.value \in {"CALENDAR", "SOCIAL", "INVOICE", "EMAIL", "CRM"}

\* A route in session B has returned the label CRM, for the answer "crm",
\* with the text of one run of the CRM agent.
C34_Witness ==
    /\ last.op = "route"
    /\ last.session = "B"
    /\ last.outcome.kind = "returned"
    /\ last.outcome.value[1] = "CRM"
    /\ last.answer.content[1].text = TextCrm
    /\ Len(RunEvents(last)) = 1
    /\ RanEvents(last)[1].end.value = last.outcome.value[2]

====
